---- MODULE Spec2Model ----
(***************************************************************************)
(* Task manager page (pages/TaskManager.jsx) with its persistence hook     *)
(* (hooks/useLocalStorage.js).  One action per user event; an action       *)
(* covers the event handler, the re-render it schedules and the effect     *)
(* that re-render runs.                                                    *)
(*                                                                         *)
(* JavaScript values are tagged records [kind, items, str]; JSON text is   *)
(* a sequence of lexemes (strings).                                        *)
(***************************************************************************)
EXTENDS Integers, Sequences, FiniteSets, TLC

\* ---------------------------------------------------------------- bounds
MaxTasks == 3
MaxClock == 2

\* ------------------------------------------------------------ JS values
Arr(items) == [kind |-> "array", items |-> items, str |-> <<>>]
Str(s) == [kind |-> "string", items |-> <<>>, str |-> s]
Null == [kind |-> "null", items |-> <<>>, str |-> <<>>]

IsArray(v) == v.kind = "array"

Task(id, text, completed) == [id |-> id, text |-> text, completed |-> completed]

\* Values Date.now() can return, and ids a stored task can carry (0 is a
\* timestamp from before this run of the clock).
Clock == 1..MaxClock
Ids == 0..MaxClock

\* What the user can type into the input box.
InputTexts == { <<>>, <<" ">>, <<" ", "a", " ">> }

Filters == {"All", "Active", "Completed"}

\* ------------------------------------------------------ String.trim()
RECURSIVE trimStart(_)
trimStart(s) ==
  IF s # <<>> /\ Head(s) = " " THEN trimStart(Tail(s)) ELSE s

RECURSIVE trimEnd(_)
trimEnd(s) ==
  IF s # <<>> /\ s[Len(s)] = " " THEN trimEnd(SubSeq(s, 1, Len(s) - 1)) ELSE s

\* Variant: the test without trim().
trimIdentity(s) == s

trim(s) == trimEnd(trimStart(s))

\* -------------------------------------------------------- JSON.stringify
Q == "\""

stringifyString(s) == <<Q>> \o s \o <<Q>>

\* Variant: the completed flag is not carried over.
stringifyTaskNoCompleted(t) ==
  <<"{", "id", ":", ToString(t.id), ",", "text", ":">> \o stringifyString(t.text)
    \o <<",", "completed", ":", "false", "}">>

stringifyTask(t) ==
  <<"{", "id", ":", ToString(t.id), ",", "text", ":">> \o stringifyString(t.text)
    \o <<",", "completed", ":", IF t.completed THEN "true" ELSE "false", "}">>

RECURSIVE stringifyElems(_)
stringifyElems(items) ==
  IF items = <<>> THEN <<>>
  ELSE IF Len(items) = 1 THEN stringifyTask(items[1])
  ELSE stringifyTask(items[1]) \o <<",">> \o stringifyElems(Tail(items))

JSONstringify(v) ==
  IF v.kind = "array" THEN <<"[">> \o stringifyElems(v.items) \o <<"]">>
  ELSE IF v.kind = "string" THEN stringifyString(v.str)
  ELSE <<"null">>

\* ------------------------------------------------------------ JSON.parse
\* Parse results: [ok, val, next]; ok = FALSE is a SyntaxError.
Fail == [ok |-> FALSE, val |-> Null, next |-> 0]
Ok(v, n) == [ok |-> TRUE, val |-> v, next |-> n]

Tok(s, i) == IF i \in 1..Len(s) THEN s[i] ELSE "<eof>"

\* A string literal starting at s[i]: up to the next quote.
parseString(s, i) ==
  IF Tok(s, i) # Q THEN Fail
  ELSE LET closing == { j \in (i + 1)..Len(s) : s[j] = Q } IN
       IF closing = {} THEN Fail
       ELSE LET j == CHOOSE k \in closing : \A m \in closing : k <= m IN
            [ok |-> TRUE, val |-> Str(SubSeq(s, i + 1, j - 1)), next |-> j + 1]

parseNumber(s, i) ==
  LET ns == { n \in Ids : ToString(n) = Tok(s, i) } IN
  IF ns = {} THEN [ok |-> FALSE, n |-> 0, next |-> 0]
  ELSE [ok |-> TRUE, n |-> CHOOSE n \in ns : TRUE, next |-> i + 1]

parseBoolean(s, i) ==
  IF Tok(s, i) = "true" THEN [ok |-> TRUE, b |-> TRUE, next |-> i + 1]
  ELSE IF Tok(s, i) = "false" THEN [ok |-> TRUE, b |-> FALSE, next |-> i + 1]
  ELSE [ok |-> FALSE, b |-> FALSE, next |-> 0]

\* An object {"id":n,"text":"..","completed":b} starting at s[i].
parseTask(s, i) ==
  LET NoTask == [ok |-> FALSE, t |-> Task(0, <<>>, FALSE), next |-> 0] IN
  IF ~(Tok(s, i) = "{" /\ Tok(s, i + 1) = "id" /\ Tok(s, i + 2) = ":") THEN NoTask
  ELSE LET n == parseNumber(s, i + 3) IN
    IF ~n.ok THEN NoTask
    ELSE IF ~(Tok(s, n.next) = "," /\ Tok(s, n.next + 1) = "text"
              /\ Tok(s, n.next + 2) = ":") THEN NoTask
    ELSE LET x == parseString(s, n.next + 3) IN
      IF ~x.ok THEN NoTask
      ELSE IF ~(Tok(s, x.next) = "," /\ Tok(s, x.next + 1) = "completed"
                /\ Tok(s, x.next + 2) = ":") THEN NoTask
      ELSE LET b == parseBoolean(s, x.next + 3) IN
        IF ~b.ok \/ Tok(s, b.next) # "}" THEN NoTask
        ELSE [ok |-> TRUE, t |-> Task(n.n, x.val.str, b.b), next |-> b.next + 1]

\* The elements of an array after "[", up to and including "]".
RECURSIVE parseElems(_, _, _)
parseElems(s, i, acc) ==
  LET e == parseTask(s, i) IN
  IF ~e.ok THEN Fail
  ELSE IF Tok(s, e.next) = "," THEN parseElems(s, e.next + 1, Append(acc, e.t))
  ELSE IF Tok(s, e.next) = "]" THEN Ok(Arr(Append(acc, e.t)), e.next + 1)
  ELSE Fail

parseValue(s) ==
  IF Tok(s, 1) = "null" THEN Ok(Null, 2)
  ELSE IF Tok(s, 1) = Q THEN parseString(s, 1)
  ELSE IF Tok(s, 1) = "[" THEN
    IF Tok(s, 2) = "]" THEN Ok(Arr(<<>>), 3) ELSE parseElems(s, 2, <<>>)
  ELSE Fail

\* JSON.parse: one value, then end of input; anything else throws.
JSONparse(s) ==
  LET r == parseValue(s) IN
  IF r.ok /\ r.next = Len(s) + 1 THEN r ELSE Fail

\* ----------------------------------------------------------- localStorage
\* The entry under the key 'tasks': absent, or an item (JSON text).
Absent == [has |-> FALSE, item |-> <<>>]
Item(s) == [has |-> TRUE, item |-> s]

\* Variant: the write is dropped.
setItemSkipped(st, s) == st

setItem(st, s) == Item(s)

\* What the entry can hold when the page is first opened.
InitialStores ==
  { Absent,
    Item(<<>>),
    Item(<<"{">>),
    Item(<<Q, "a", Q>>),
    Item(<<"null">>),
    Item(<<"[", "]">>),
    Item(JSONstringify(Arr(<<Task(0, <<"a">>, FALSE)>>))),
    Item(JSONstringify(Arr(<<Task(0, <<"a">>, TRUE)>>))) }

\* useState initializer of useLocalStorage.
initialState(st, initialValue) ==
  IF st.has /\ st.item # <<>> THEN
    LET r == JSONparse(st.item) IN
    IF r.ok THEN r.val ELSE initialValue
  ELSE initialValue

\* --------------------------------------------------- Array.prototype.*
\* Variant: Active and Completed exchanged.
filterCallbackSwapped(f, t) ==
  IF f = "All" THEN TRUE ELSE IF f = "Active" THEN t.completed ELSE ~t.completed

filterCallback(f, t) ==
  IF f = "All" THEN TRUE ELSE IF f = "Active" THEN ~t.completed ELSE t.completed

RECURSIVE computeFiltered(_, _)
computeFiltered(items, f) ==
  IF items = <<>> THEN <<>>
  ELSE IF filterCallback(f, Head(items))
       THEN <<Head(items)>> \o computeFiltered(Tail(items), f)
       ELSE computeFiltered(Tail(items), f)

toggleMap(items, id) ==
  [i \in 1..Len(items) |->
     IF items[i].id = id
     THEN Task(items[i].id, items[i].text, ~items[i].completed)
     ELSE items[i]]

RECURSIVE deleteFilter(_, _)
deleteFilter(items, id) ==
  IF items = <<>> THEN <<>>
  ELSE IF Head(items).id # id
       THEN <<Head(items)>> \o deleteFilter(Tail(items), id)
       ELSE deleteFilter(Tail(items), id)

appendTask(items, id, text) == Append(items, Task(id, text, FALSE))

\* ------------------------------------------------------------------ state
VARIABLES
  store,          \* localStorage entry under 'tasks'
  tasks,          \* storedValue of useLocalStorage('tasks', [])
  text,           \* useState('')
  filter,         \* useState('All')
  filteredTasks,  \* the list computed by the last render
  phase,          \* "unmounted" | "mounted" | "crashed" (tree torn down by an uncaught error)
  error,          \* the uncaught error, or "none"
  now,            \* the reading Date.now() returns
  lastOp,         \* the last event
  lastArg,        \* the id passed by the last event if toggleTask / deleteTask, else 0
  setItemResult,  \* "none" | "ok" | "failed": localStorage.setItem in the last event
  saved           \* the value last written successfully by the effect

vars == <<store, tasks, text, filter, filteredTasks, phase, error, now,
          lastOp, lastArg, setItemResult, saved>>

Init ==
  /\ store \in InitialStores
  /\ tasks = Arr(<<>>)
  /\ text = <<>>
  /\ filter = "All"
  /\ filteredTasks = <<>>
  /\ phase = "unmounted"
  /\ error = "none"
  /\ now = 1
  /\ lastOp = "init"
  /\ lastArg = 0
  /\ setItemResult = "none"
  /\ saved = [some |-> FALSE, val |-> Null]

\* useEffect(() => localStorage.setItem(key, JSON.stringify(storedValue)))
\* after a render that committed the value v; ok = FALSE: setItem throws.
\* The effect has no handler, so the error tears the tree down.
Effect(v, ok) ==
  /\ store' = IF ok THEN setItem(store, JSONstringify(v)) ELSE store
  /\ setItemResult' = IF ok THEN "ok" ELSE "failed"
  /\ saved' = IF ok THEN [some |-> TRUE, val |-> v] ELSE saved
  /\ error' = IF ok THEN "none" ELSE "QuotaExceededError"
  /\ phase' = IF ok THEN "mounted" ELSE "crashed"

\* setTasks(v): new array identity, so render, then the effect runs.
SetTasks(v, ok) ==
  /\ tasks' = v
  /\ filteredTasks' = computeFiltered(v.items, filter)
  /\ Effect(v, ok)

\* First render of <TaskManager/>: hydrate, compute filteredTasks, run the effect.
Mount ==
  /\ phase = "unmounted"
  /\ lastOp' = "mount"
  /\ LET v == initialState(store, Arr(<<>>)) IN
     /\ tasks' = v
     /\ IF IsArray(v)
        THEN /\ filteredTasks' = computeFiltered(v.items, "All")
             /\ \E ok \in BOOLEAN : Effect(v, ok)
        ELSE \* tasks.filter is not a function
             /\ filteredTasks' = <<>>
             /\ error' = "TypeError"
             /\ phase' = "crashed"
             /\ UNCHANGED <<store, setItemResult, saved>>
  /\ lastArg' = 0
  /\ UNCHANGED <<text, filter, now>>

\* onChange of the input
SetText(t) ==
  /\ phase = "mounted"
  /\ text' = t
  /\ lastOp' = "setText"
  /\ setItemResult' = "none"
  /\ lastArg' = 0
  /\ UNCHANGED <<store, tasks, filter, filteredTasks, phase, error, now, saved>>

addTask ==
  /\ phase = "mounted"
  /\ lastOp' = "addTask"
  /\ \/ /\ trim(text) # <<>>
        /\ Len(tasks.items) < MaxTasks
        /\ \E ok \in BOOLEAN : SetTasks(Arr(appendTask(tasks.items, now, text)), ok)
        /\ text' = <<>>
     \/ /\ trim(text) = <<>>
        /\ setItemResult' = "none"
        /\ UNCHANGED <<store, tasks, text, filteredTasks, phase, error, saved>>
  /\ lastArg' = 0
  /\ UNCHANGED <<filter, now>>

toggleTask(id) ==
  /\ phase = "mounted"
  /\ lastOp' = "toggleTask"
  /\ lastArg' = id
  /\ \E ok \in BOOLEAN : SetTasks(Arr(toggleMap(tasks.items, id)), ok)
  /\ UNCHANGED <<text, filter, now>>

deleteTask(id) ==
  /\ phase = "mounted"
  /\ lastOp' = "deleteTask"
  /\ lastArg' = id
  /\ \E ok \in BOOLEAN : SetTasks(Arr(deleteFilter(tasks.items, id)), ok)
  /\ UNCHANGED <<text, filter, now>>

setFilter(f) ==
  /\ phase = "mounted"
  /\ filter' = f
  /\ filteredTasks' = computeFiltered(tasks.items, f)
  /\ lastOp' = "setFilter"
  /\ setItemResult' = "none"
  /\ lastArg' = 0
  /\ UNCHANGED <<store, tasks, text, phase, error, now, saved>>

\* The wall clock advances.
Tick ==
  /\ now < MaxClock
  /\ now' = now + 1
  /\ lastOp' = "tick"
  /\ lastArg' = 0
  /\ setItemResult' = "none"
  /\ UNCHANGED <<store, tasks, text, filter, filteredTasks, phase, error, saved>>

\* The page is reloaded: component state is gone, the store entry stays.
Reload ==
  /\ phase \in {"mounted", "crashed"}
  /\ phase' = "unmounted"
  /\ tasks' = Arr(<<>>)
  /\ text' = <<>>
  /\ filter' = "All"
  /\ filteredTasks' = <<>>
  /\ error' = "none"
  /\ lastOp' = "reload"
  /\ setItemResult' = "none"
  /\ lastArg' = 0
  /\ UNCHANGED <<store, now, saved>>

Next ==
  \/ Mount
  \/ \E t \in InputTexts : SetText(t)
  \/ addTask
  \/ \E id \in Ids : toggleTask(id)
  \/ \E id \in Ids : deleteTask(id)
  \/ \E f \in Filters : setFilter(f)
  \/ Tick
  \/ Reload

Spec == Init /\ [][Next]_vars

\* ================================================================ claims
IsBlank(s) == \A i \in 1..Len(s) : s[i] = " "

DistinctIds(items) ==
  \A i, j \in 1..Len(items) : i # j => items[i].id # items[j].id

HasId(items, id) == \E i \in 1..Len(items) : items[i].id = id

\* r is items with some positions struck out, the rest in their order.
Matches(f, t) ==
  \/ f = "All"
  \/ f = "Active" /\ t.completed = FALSE
  \/ f = "Completed" /\ t.completed = TRUE

Selection(items, keep) ==
  [k \in 1..Cardinality(keep) |->
     items[CHOOSE i \in keep : Cardinality({j \in keep : j <= i}) = k]]

IsOrderedRest(r, items) ==
  \E keep \in SUBSET (1..Len(items)) : r = Selection(items, keep)

\* A store write of the running manager has thrown.
StoreWriteFailed == error = "QuotaExceededError"

\* C1: every addTask with non-blank text makes the collection one longer
\* and leaves all ids pairwise distinct (store writes succeeding).
C1_AddGrowsWithDistinctIds ==
  [][(lastOp' = "addTask" /\ ~IsBlank(text) /\ setItemResult' # "failed")
       => /\ Len(tasks'.items) = Len(tasks.items) + 1
          /\ DistinctIds(tasks'.items)]_vars

\* C2: a manager started on a malformed entry (undecodable text, or a
\* decoded value that is not a list) holds the empty collection and meets
\* no TypeError.
MalformedEntry(st) ==
  st.has /\ (~JSONparse(st.item).ok \/ ~IsArray(JSONparse(st.item).val))

C2_MalformedHydratesEmpty ==
  [][(lastOp' = "mount" /\ MalformedEntry(store))
       => (tasks' = Arr(<<>>) /\ error' # "TypeError")]_vars

\* C3: when the store write of addTask, toggleTask or deleteTask fails, no
\* error escapes, the manager stays up, and the collection is the one the
\* operation produces.
C3_WriteFailureSwallowed ==
  [][(setItemResult' = "failed" /\ lastOp' \in {"addTask", "toggleTask", "deleteTask"})
       => /\ error' = "none"
          /\ phase' = "mounted"
          /\ tasks' = Arr(CASE lastOp' = "addTask" -> appendTask(tasks.items, now, text)
                            [] lastOp' = "toggleTask" -> toggleMap(tasks.items, lastArg')
                            [] OTHER -> deleteFilter(tasks.items, lastArg'))]_vars

StoreDecodesToTasks ==
  /\ store.has
  /\ JSONparse(store.item).ok
  /\ JSONparse(store.item).val = tasks

MutationWrites ==
  (\/ lastOp' \in {"toggleTask", "deleteTask"}
   \/ lastOp' = "addTask" /\ ~IsBlank(text))
    => setItemResult' # "none"

C5_RoundTrip ==
  [][(lastOp' = "mount" /\ saved.some) => tasks' = saved.val]_vars

C5_Witness ==
  /\ lastOp = "mount"
  /\ phase = "mounted"
  /\ Len(tasks.items) >= 2
  /\ \E i \in 1..Len(tasks.items) : tasks.items[i].completed /\ tasks.items[i].id >= 1
  /\ \E i \in 1..Len(tasks.items) : ~tasks.items[i].completed

\* C6: addTask on empty or all-whitespace text changes neither the
\* collection nor the store, calls no store write and raises nothing.
C6_BlankAddIsNoOp ==
  [][(lastOp' = "addTask" /\ IsBlank(text))
       => /\ tasks' = tasks
          /\ store' = store
          /\ setItemResult' = "none"
          /\ error' = "none"
          /\ phase' = "mounted"]_vars

C6_Witness ==
  /\ lastOp = "addTask"
  /\ text # <<>>
  /\ IsBlank(text)
  /\ tasks.items # <<>>
  /\ phase = "mounted"

\* C7: toggleTask(id) on a present id changes exactly one task, negating
\* its completed flag and nothing else, and a second toggleTask(id) would
\* restore the collection (store writes succeeding).
C7_ToggleChangesExactlyOne ==
  [][(lastOp' = "toggleTask" /\ HasId(tasks.items, lastArg') /\ setItemResult' # "failed")
       => /\ Len(tasks'.items) = Len(tasks.items)
          /\ Cardinality({i \in 1..Len(tasks.items) : tasks'.items[i] # tasks.items[i]}) = 1
          /\ \A i \in 1..Len(tasks.items) :
               /\ tasks'.items[i].id = tasks.items[i].id
               /\ tasks'.items[i].text = tasks.items[i].text
               /\ tasks.items[i].id # lastArg' => tasks'.items[i] = tasks.items[i]
          /\ toggleMap(tasks'.items, lastArg') = tasks.items]_vars

\* C8: deleteTask(id) on a present id makes the collection exactly one
\* shorter, the rest in their order; on an absent id it changes nothing
\* (store writes succeeding).
C8_DeleteRemovesExactlyOne ==
  [][(lastOp' = "deleteTask" /\ setItemResult' # "failed")
       => IF HasId(tasks.items, lastArg')
          THEN /\ Len(tasks'.items) = Len(tasks.items) - 1
               /\ IsOrderedRest(tasks'.items, tasks.items)
               /\ ~HasId(tasks'.items, lastArg')
          ELSE tasks' = tasks /\ error' = "none"]_vars

C9_View ==
  phase = "mounted" =>
    /\ filteredTasks =
         Selection(tasks.items,
                   {i \in 1..Len(tasks.items) : Matches(filter, tasks.items[i])})
    /\ filter = "All" => filteredTasks = tasks.items

C9_SetFilterFrame ==
  lastOp' = "setFilter" =>
    /\ tasks' = tasks
    /\ store' = store
    /\ setItemResult' = "none"
    /\ saved' = saved

\* C9: the rendered list is, in insertion order, exactly the tasks with
\* completed = FALSE under Active, exactly those with completed = TRUE
\* under Completed, and the whole sequence under All; a fresh manager
\* shows All; setFilter touches neither the collection nor the store.
C9_FilteredView ==
  /\ [](C9_View /\ (lastOp = "mount" => filter = "All"))
  /\ [][C9_SetFilterFrame]_vars

C9_Witness ==
  /\ lastOp = "setFilter"
  /\ filter = "Active"
  /\ filteredTasks # <<>>
  /\ Len(filteredTasks) < Len(tasks.items)
  /\ Len(tasks.items) = 3
  /\ ~tasks.items[1].completed /\ tasks.items[2].completed /\ ~tasks.items[3].completed

\* C10: an accepted addTask appends, at the end, a task with completed =
\* FALSE whose text is the input trimmed of outer whitespace (store writes
\* succeeding).
C10_AppendsTrimmedText ==
  [][(lastOp' = "addTask" /\ ~IsBlank(text) /\ setItemResult' # "failed")
       => /\ Len(tasks'.items) = Len(tasks.items) + 1
          /\ SubSeq(tasks'.items, 1, Len(tasks.items)) = tasks.items
          /\ tasks'.items[Len(tasks'.items)].completed = FALSE
          /\ tasks'.items[Len(tasks'.items)].text = trim(text)]_vars

====
